---- MODULE Spec2Model ----
(***************************************************************************)
(* Coffee futures spread pipeline: generate_spread_charts_html.py (parse,  *)
(* catalogue, sort, pair, spread, report) and download_coffee.py (fetch    *)
(* contracts, write index).                                                *)
(*                                                                         *)
(* Strings are sequences of one-character strings.  Each script part has   *)
(* its own specification over its own group of variables; the variables of *)
(* the other groups stay at their idle values.                             *)
(*   SpecParse    parse_filename on one identifier                         *)
(*   Spec         main() of generate_spread_charts_html.py                 *)
(*   SpecRead     read_series on one raw table                             *)
(*   SpecOhlc     make_ohlc_chart on two raw tables                        *)
(*   SpecDownload main() of download_coffee.py                             *)
(***************************************************************************)
EXTENDS Integers, Sequences, FiniteSets, TLC

VARIABLES
    \* parse_filename call
    fname, parseRet,
    \* generate_spread_charts_html.main
    dir, scanned, parsed, pc, r, entries, i, results, attempts, call, charts, html,
    \* read_series call
    raw, series,
    \* make_ohlc_chart call
    rawA, rawB, plotOk, ohlcRet,
    \* download_coffee.main
    nowYear, contracts, idx, fetched, lastResp, downloaded_files, disk, indexHtml

varsP == <<fname, parseRet>>
varsM == <<dir, scanned, parsed, pc, r, entries, i, results, attempts, call, charts, html>>
varsR == <<raw, series>>
varsO == <<rawA, rawB, plotOk, ohlcRet>>
varsD == <<nowYear, contracts, idx, fetched, lastResp, downloaded_files, disk, indexHtml>>
vars == <<varsP, varsM, varsR, varsO, varsD>>

(***************************************************************************)
(* Characters                                                              *)
(***************************************************************************)
Digits == {"0", "1", "2", "3", "4", "5", "6", "7", "8", "9"}

DigitVal(c) ==
    CASE c = "0" -> 0 [] c = "1" -> 1 [] c = "2" -> 2 [] c = "3" -> 3
      [] c = "4" -> 4 [] c = "5" -> 5 [] c = "6" -> 6 [] c = "7" -> 7
      [] c = "8" -> 8 [] c = "9" -> 9

\* int(s) of a digit string
RECURSIVE IntOf(_)
IntOf(s) ==
    IF s = <<>> THEN 0
    ELSE 10 * IntOf(SubSeq(s, 1, Len(s) - 1)) + DigitVal(s[Len(s)])

\* str.upper() on one character (the letters the model's identifiers use)
Upper(c) ==
    CASE c = "h" -> "H" [] c = "k" -> "K" [] c = "n" -> "N" [] c = "u" -> "U"
      [] c = "z" -> "Z" [] c = "c" -> "C" [] c = "f" -> "F" [] c = "t" -> "T"
      [] OTHER -> c

RECURSIVE UpperStr(_)
UpperStr(s) == IF s = <<>> THEN <<>> ELSE <<Upper(Head(s))>> \o UpperStr(Tail(s))

AllDigits(s) == \A j \in 1..Len(s) : s[j] \in Digits

SetMin(S) == CHOOSE x \in S : \A y \in S : x <= y

(***************************************************************************)
(* parse_filename                                                          *)
(***************************************************************************)
\* variant of COFFEE_MONTH_CODES with May numbered 4
CoffeeMonthsShifted == ("H" :> 3) @@ ("K" :> 4) @@ ("N" :> 7) @@ ("U" :> 9) @@ ("Z" :> 12)
\* COFFEE_MONTH_CODES = {'H':3, 'K':5, 'N':7, 'U':9, 'Z':12}
COFFEE_MONTH_CODES == ("H" :> 3) @@ ("K" :> 5) @@ ("N" :> 7) @@ ("U" :> 9) @@ ("Z" :> 12)

\* the character class [HKNUZ] of FNAME_RE under re.IGNORECASE
MonthClass(c) == Upper(c) \in {"H", "K", "N", "U", "Z"}

\* the group (?P<year>\d{2,4})? followed by $: the rest of the string is the
\* year group (2 to 4 digits) or the group is absent and the rest is empty
YearGroup(rest) == rest = <<>> \/ (Len(rest) \in 2..4 /\ AllDigits(rest))

NoYear == [some |-> FALSE, val |-> 0]
SomeYear(n) == [some |-> TRUE, val |-> n]

\* variant of YearOf that leaves a short year as written
YearNoCentury(y) ==
    IF y = <<>> THEN NoYear ELSE SomeYear(IntOf(y))
\* year = m.group('year'); if year: year = int(year) if len(year)==4 else 2000+int(year)
YearOf(y) ==
    IF y = <<>> THEN NoYear
    ELSE IF Len(y) = 4 THEN SomeYear(IntOf(y)) ELSE SomeYear(2000 + IntOf(y))

NoMatch == [matched |-> FALSE, root |-> <<>>, month |-> "", year |-> NoYear]

\* FNAME_RE.match: the lazy root group grows from one character, so the match
\* taken is the one with the shortest root
MatchSplits(s) ==
    {j \in 1..(Len(s) - 1) : MonthClass(s[j + 1]) /\ YearGroup(SubSeq(s, j + 2, Len(s)))}

parse_filename(s) ==
    IF MatchSplits(s) = {} THEN NoMatch
    ELSE LET j == SetMin(MatchSplits(s))
         IN [matched |-> TRUE, root |-> SubSeq(s, 1, j), month |-> Upper(s[j + 1]),
             year |-> YearOf(SubSeq(s, j + 2, Len(s)))]

(***************************************************************************)
(* Identifiers handed to parse_filename in SpecParse: a prefix over        *)
(* PrefixChars, then nothing, or one letter and a run of digits.           *)
(***************************************************************************)
MaxPrefix == 2
MaxDigits == 5

PrefixChars == {"K", "C", "h", "2"}
TailLetters == {"F", "G", "H", "J", "K", "M", "N", "Q", "U", "V", "X", "Z",
                "h", "k", "z", "f", "C"}
TailDigits == {"0", "2"}

SeqsUpTo(S, n) == UNION {[1..m -> S] : m \in 0..n}

Identifiers ==
    {p \o t : p \in SeqsUpTo(PrefixChars, MaxPrefix),
              t \in {<<>>} \cup {<<l>> \o d : l \in TailLetters,
                                             d \in SeqsUpTo(TailDigits, MaxDigits)}}

Pending == [matched |-> FALSE, root |-> <<"?">>, month |-> "", year |-> NoYear]

IdleP == fname = <<>> /\ parseRet = Pending

InitParse ==
    /\ fname \in Identifiers
    /\ parseRet = Pending

ParseFilename ==
    /\ parseRet = Pending
    /\ parseRet' = parse_filename(fname)
    /\ UNCHANGED fname

(***************************************************************************)
(* scan_csvs and sort_entries                                              *)
(***************************************************************************)
Entry(f, p) == [path |-> f, month |-> p.month, year |-> p.year]

RootIndex(cat, root) == {j \in 1..Len(cat) : cat[j].root = root}

\* parsed.setdefault(root, []).append(entry) on an insertion-ordered dict
SetDefaultAppend(cat, root, e) ==
    IF RootIndex(cat, root) = {} THEN Append(cat, [root |-> root, entries |-> <<e>>])
    ELSE LET j == SetMin(RootIndex(cat, root))
         IN [cat EXCEPT ![j].entries = Append(@, e)]

\* one iteration of the loop of scan_csvs on the file with stem f
ScanOne(cat, f) ==
    LET p == parse_filename(f)
    IN IF ~p.matched THEN cat ELSE SetDefaultAppend(cat, p.root, Entry(f, p))

\* e["year"] if e["year"] else 9999: None and 0 are both falsy
FarFuture == 9999
YearKey(e) == IF e.year.some /\ e.year.val # 0 THEN e.year.val ELSE FarFuture

\* the key of sort_entries, compared as Python compares tuples
KeyLess(a, b) ==
    \/ YearKey(a) < YearKey(b)
    \/ YearKey(a) = YearKey(b) /\ COFFEE_MONTH_CODES[a.month] < COFFEE_MONTH_CODES[b.month]

\* sorted() is stable: an element goes after every element not greater than it
RECURSIVE InsertSorted(_, _)
InsertSorted(s, e) ==
    IF s = <<>> THEN <<e>>
    ELSE IF KeyLess(e, s[Len(s)]) THEN Append(InsertSorted(SubSeq(s, 1, Len(s) - 1), e), s[Len(s)])
    ELSE Append(s, e)

RECURSIVE SortPrefix(_, _)
SortPrefix(es, n) == IF n = 0 THEN <<>> ELSE InsertSorted(SortPrefix(es, n - 1), es[n])

sort_entries(es) == SortPrefix(es, Len(es))

(***************************************************************************)
(* read_series                                                             *)
(***************************************************************************)
\* one line of a headerless CSV: the date column (day and time of day), the
\* four prices, and the set of columns whose field is empty
Row(d, t, l, m) ==
    [day |-> d, tod |-> t, open |-> l - 1, high |-> l + 1, low |-> l - 2, close |-> l,
     missing |-> m]

File(rows) == [readable |-> TRUE, rows |-> rows]
Unreadable == [readable |-> FALSE, rows |-> <<>>]

\* df[["date","open","high","low","close"]].dropna()
DropNa(rows) == SelectSeq(rows, LAMBDA x : x.missing = {})

\* rename, then pd.to_datetime(df["Date"]).dt.normalize(): the time of day is zeroed
Normalize(rows) ==
    [j \in 1..Len(rows) |->
        [Date |-> [day |-> rows[j].day, tod |-> 0], Open |-> rows[j].open,
         High |-> rows[j].high, Low |-> rows[j].low, Close |-> rows[j].close]]

DateLess(x, y) == x.day < y.day \/ (x.day = y.day /\ x.tod < y.tod)

\* sort_values("Date") with the default quicksort: rows of equal Date may end
\* in any order, so every ordering by Date is a possible result
SortValues(df) ==
    {[j \in 1..Len(df) |-> df[p[j]]] : p \in
        {q \in Permutations(1..Len(df)) :
            \A j \in 1..(Len(df) - 1) : ~DateLess(df[q[j + 1]].Date, df[q[j]].Date)}}

RECURSIVE PickIdx(_, _, _)
PickIdx(df, keep, n) ==
    IF n = 0 THEN <<>>
    ELSE IF n \in keep THEN Append(PickIdx(df, keep, n - 1), df[n])
    ELSE PickIdx(df, keep, n - 1)

\* variant of DropDuplicates that drops nothing
KeepDuplicates(df) == df
\* drop_duplicates("Date"): the first row of each Date is kept
DropDuplicates(df) ==
    PickIdx(df, {j \in 1..Len(df) : \A k \in 1..(j - 1) : df[k].Date # df[j].Date}, Len(df))

\* the results read_series can return (raised: pd.read_csv failed)
Raised == [raised |-> TRUE, df |-> <<>>]
ReadSeriesResults(file) ==
    IF ~file.readable THEN {Raised}
    ELSE {[raised |-> FALSE, df |-> DropDuplicates(s)] :
            s \in SortValues(Normalize(DropNa(file.rows)))}

(***************************************************************************)
(* make_ohlc_chart                                                         *)
(***************************************************************************)
Index(df) == {df[j].Date : j \in 1..Len(df)}
At(df, d) == df[CHOOSE j \in 1..Len(df) : df[j].Date = d]

\* variant of JoinInner that keeps every row of a (a left join)
JoinLeft(a, b) ==
    LET keep == 1..Len(a)
        ja == PickIdx(a, keep, Len(a))
    IN [j \in 1..Len(ja) |-> [Date |-> ja[j].Date, A |-> ja[j],
                              B |-> IF ja[j].Date \in Index(b) THEN At(b, ja[j].Date) ELSE ja[j]]]
\* a.join(b, how="inner", lsuffix="_A", rsuffix="_B"): the rows of a whose Date
\* is in b's index, in a's order
JoinInner(a, b) ==
    LET keep == {j \in 1..Len(a) : a[j].Date \in Index(b)}
        ja == PickIdx(a, keep, Len(a))
    IN [j \in 1..Len(ja) |-> [Date |-> ja[j].Date, A |-> ja[j], B |-> At(b, ja[j].Date)]]

\* the spread frame: the four columns are subtracted independently
SpreadOhlc(df) ==
    [j \in 1..Len(df) |->
        [Date |-> df[j].Date, Open |-> df[j].A.Open - df[j].B.Open,
         High |-> df[j].A.High - df[j].B.High, Low |-> df[j].A.Low - df[j].B.Low,
         Close |-> df[j].A.Close - df[j].B.Close]]

\* f"{a_path.stem}_{b_path.stem}_ohlc.png"
ChartFile(a, b) == a \o <<"_">> \o b \o <<"_ohlc.png">>

\* variant of ChartOf without the df.empty test
ChartOfEmptyToo(sa, sb, plots, aStem, bStem) ==
    IF ~plots THEN [kind |-> "raise", a |-> sa, b |-> sb, ohlc |-> <<>>, file |-> <<>>]
    ELSE [kind |-> "chart", a |-> sa, b |-> sb, ohlc |-> SpreadOhlc(JoinInner(sa, sb)),
          file |-> ChartFile(aStem, bStem)]
\* what make_ohlc_chart does once both series are read: kind is "none" (the
\* return of None), "chart" (the chart was saved, its name returned) or
\* "raise" (mpf.plot raised)
ChartOf(sa, sb, plots, aStem, bStem) ==
    IF JoinInner(sa, sb) = <<>>
    THEN [kind |-> "none", a |-> sa, b |-> sb, ohlc |-> <<>>, file |-> <<>>]
    ELSE IF ~plots THEN [kind |-> "raise", a |-> sa, b |-> sb, ohlc |-> <<>>, file |-> <<>>]
    ELSE [kind |-> "chart", a |-> sa, b |-> sb, ohlc |-> SpreadOhlc(JoinInner(sa, sb)),
          file |-> ChartFile(aStem, bStem)]

\* the results make_ohlc_chart can have on two files
MakeOhlcChartResults(fa, fb, plots, aStem, bStem) ==
    {IF ra.raised \/ rb.raised
     THEN [kind |-> "raise", a |-> ra.df, b |-> rb.df, ohlc |-> <<>>, file |-> <<>>]
     ELSE ChartOf(ra.df, rb.df, plots, aStem, bStem) :
        ra \in ReadSeriesResults(fa), rb \in ReadSeriesResults(fb)}

(***************************************************************************)
(* main of generate_spread_charts_html.py                                  *)
(***************************************************************************)
MaxFiles == 7

\* the file stems the data directory may hold, in one listing order
Stems ==
    << <<"K", "C">>,
       <<"K", "C", "H">>,
       <<"K", "C", "H", "1", "2", "3">>,
       <<"K", "C", "Z", "9", "9", "9", "9">>,
       <<"K", "C", "H", "0", "0", "0", "0">>,
       <<"K", "C", "K", "2", "4">>,
       <<"k", "c", "H", "2", "4">>,
       <<"k", "c", "N", "2", "4">>,
       <<"k", "c", "K", "2", "4">>,
       <<"C", "T", "H", "2", "4">> >>

Reverse(s) == [j \in 1..Len(s) |-> s[Len(s) + 1 - j]]

\* the listings directory.glob("*.csv") may yield: at most MaxFiles of the
\* stems, in the order of Stems or in the opposite order
Listings ==
    LET subs == {PickIdx(Stems, S, Len(Stems)) :
                    S \in {T \in SUBSET (1..Len(Stems)) : Cardinality(T) <= MaxFiles}}
    IN subs \cup {Reverse(l) : l \in subs}

\* what a CSV file may hold when make_ohlc_chart reads it
MainFiles ==
    { Unreadable,
      File(<<Row(1, 0, 200, {})>>),
      File(<<Row(2, 1, 205, {}), Row(2, 0, 205, {"open"})>>) }

NoRet == [kind |-> "nocall", a |-> <<>>, b |-> <<>>, ohlc |-> <<>>, file |-> <<>>]
NoCall == [made |-> FALSE, a |-> Unreadable, b |-> Unreadable, ret |-> NoRet]
NotWritten == [written |-> FALSE, body |-> <<>>]

IdleM ==
    /\ dir = <<>> /\ scanned = 0 /\ parsed = <<>> /\ pc = "idle" /\ r = 0
    /\ entries = <<>> /\ i = 0 /\ results = <<>> /\ attempts = <<>>
    /\ call = NoCall /\ charts = {} /\ html = NotWritten

InitMain ==
    /\ dir \in Listings
    /\ scanned = 0 /\ parsed = <<>> /\ pc = "scan" /\ r = 0
    /\ entries = <<>> /\ i = 0 /\ results = <<>> /\ attempts = <<>>
    /\ call = NoCall /\ charts = {} /\ html = NotWritten

\* root.upper().startswith("KC")
StartsWithKC(root) == Len(root) >= 2 /\ UpperStr(SubSeq(root, 1, 2)) = <<"K", "C">>

\* entries = [e for e in entries if e["month"] in COFFEE_MONTH_CODES]
FilterMonths(es) == SelectSeq(es, LAMBDA e : e.month \in DOMAIN COFFEE_MONTH_CODES)

\* variant of RangeLen for range(len(entries)-3)
RangeLenMinus3(es) == IF Len(es) - 3 > 0 THEN Len(es) - 3 ELSE 0
\* for i in range(len(entries)-2): the number of iterations
RangeLen(es) == IF Len(es) - 2 > 0 THEN Len(es) - 2 ELSE 0

\* a = entries[i]["path"]; b = entries[i+2]["path"]   (i counts from 0)
PairAt(es, k) == [a |-> es[k + 1].path, b |-> es[k + 3].path]

\* if chart_name: results.append({"title": f"{a.stem}-{b.stem}", "chart_file": chart_name})
Collect(res, ret, a, b) ==
    IF ret.kind = "chart"
    THEN Append(res, [title |-> a \o <<"-">> \o b, chart_file |-> ret.file])
    ELSE res

\* variant of AfterPair without the except clause
AfterPairUncaught(kind) == IF kind = "raise" THEN "crashed" ELSE "pairs"
\* try: ... except Exception as e: print(...): the loop goes on after a raise
AfterPair(kind) == "pairs"

\* one iteration of the loop of scan_csvs, on the next file of the listing
ScanFile ==
    /\ pc = "scan"
    /\ scanned < Len(dir)
    /\ parsed' = ScanOne(parsed, dir[scanned + 1])
    /\ scanned' = scanned + 1
    /\ UNCHANGED <<dir, pc, r, entries, i, results, attempts, call, charts, html>>

\* scan_csvs returns; results = []
ScanEnd ==
    /\ pc = "scan"
    /\ scanned = Len(dir)
    /\ pc' = "roots"
    /\ r' = 1
    /\ UNCHANGED <<dir, scanned, parsed, entries, i, results, attempts, call, charts, html>>

\* the head of one iteration of "for root, entries in parsed.items()"
RootStep ==
    /\ pc = "roots"
    /\ r <= Len(parsed)
    /\ LET es == FilterMonths(parsed[r].entries)
       IN IF ~StartsWithKC(parsed[r].root) \/ Len(es) < 2
          THEN /\ r' = r + 1
               /\ UNCHANGED <<pc, entries, i>>
          ELSE /\ entries' = sort_entries(es)
               /\ i' = 0
               /\ pc' = "pairs"
               /\ UNCHANGED r
    /\ UNCHANGED <<dir, scanned, parsed, results, attempts, call, charts, html>>

\* one iteration of the pairing loop: the call of make_ohlc_chart on the two
\* files as they are when read, and whether plotting succeeds
PairStep ==
    /\ pc = "pairs"
    /\ i < RangeLen(entries)
    /\ LET p == PairAt(entries, i)
       IN \E fa \in MainFiles, fb \in MainFiles, plots \in BOOLEAN :
            \E ret \in MakeOhlcChartResults(fa, fb, plots, p.a, p.b) :
                /\ call' = [made |-> TRUE, a |-> fa, b |-> fb, ret |-> ret]
                /\ results' = Collect(results, ret, p.a, p.b)
                /\ charts' = IF ret.kind = "chart" THEN charts \cup {ret.file} ELSE charts
                /\ attempts' = Append(attempts, [root |-> r, a |-> p.a, b |-> p.b,
                                                 kind |-> ret.kind])
                /\ pc' = AfterPair(ret.kind)
    /\ i' = i + 1
    /\ UNCHANGED <<dir, scanned, parsed, r, entries, html>>

\* the pairing loop of one root is exhausted
RootEnd ==
    /\ pc = "pairs"
    /\ i >= RangeLen(entries)
    /\ pc' = "roots"
    /\ r' = r + 1
    /\ entries' = <<>>
    /\ i' = 0
    /\ UNCHANGED <<dir, scanned, parsed, results, attempts, call, charts, html>>

\* generate_html(results, out_html, charts_dir)
GenerateHtml ==
    /\ pc = "roots"
    /\ r > Len(parsed)
    /\ html' = [written |-> TRUE, body |-> results]
    /\ pc' = "done"
    /\ UNCHANGED <<dir, scanned, parsed, r, entries, i, results, attempts, call, charts>>

(***************************************************************************)
(* read_series and make_ohlc_chart as single calls                         *)
(***************************************************************************)
MaxRows == 3
MaxPairRows == 2

SeqsFrom1(S, n) == UNION {[1..m -> S] : m \in 1..n}

\* the lines a file handed to read_series may hold
ReadRows ==
    {Row(d, t, l, {}) : d \in {1, 2}, t \in {0, 1}, l \in {200, 202}}
    \cup {Row(d, t, 200, {"close"}) : d \in {1, 2}, t \in {0, 1}}
    \cup {Row(0, 0, 200, {"date"}), Row(1, 0, 200, {"open", "low"})}

ReadFiles == {Unreadable} \cup {File(rows) : rows \in SeqsFrom1(ReadRows, MaxRows)}

NotRead == [done |-> FALSE, ret |-> Raised]

IdleR == raw = Unreadable /\ series = NotRead

InitRead == raw \in ReadFiles /\ series = NotRead

ReadSeries ==
    /\ ~series.done
    /\ \E ret \in ReadSeriesResults(raw) : series' = [done |-> TRUE, ret |-> ret]
    /\ UNCHANGED raw

\* the near file and the deferred file handed to make_ohlc_chart
NearRows == {Row(d, 0, l, {}) : d \in {1, 2, 3}, l \in {200, 202}}
DeferredRows == {Row(d, 0, l, {}) : d \in {1, 2, 3}, l \in {205, 206}}
NearFiles == {Unreadable} \cup {File(rows) : rows \in SeqsFrom1(NearRows, MaxPairRows)}
DeferredFiles == {Unreadable} \cup {File(rows) : rows \in SeqsFrom1(DeferredRows, MaxPairRows)}

NearStem == <<"K", "C", "H", "2", "4">>
DeferredStem == <<"K", "C", "K", "2", "4">>

IdleO == rawA = Unreadable /\ rawB = Unreadable /\ plotOk = TRUE /\ ohlcRet = NoRet

InitOhlc ==
    /\ rawA \in NearFiles
    /\ rawB \in DeferredFiles
    /\ plotOk \in BOOLEAN
    /\ ohlcRet = NoRet

MakeOhlcChart ==
    /\ ohlcRet = NoRet
    /\ ohlcRet' \in MakeOhlcChartResults(rawA, rawB, plotOk, NearStem, DeferredStem)
    /\ UNCHANGED <<rawA, rawB, plotOk>>

(***************************************************************************)
(* download_coffee.py                                                      *)
(***************************************************************************)
\* the lookback window of get_contracts (the script's YEARS_BACK is 5)
YearsBack == 1

\* datetime.now().year
NowYears == {2009, 2026}

SYMBOL == <<"K", "C">>
MONTH_CODES == <<"H", "K", "N", "U", "Z">>

DigitChar(n) ==
    CASE n = 0 -> "0" [] n = 1 -> "1" [] n = 2 -> "2" [] n = 3 -> "3" [] n = 4 -> "4"
      [] n = 5 -> "5" [] n = 6 -> "6" [] n = 7 -> "7" [] n = 8 -> "8" [] n = 9 -> "9"

\* str(year)[-2:] for a four-digit year
LastTwo(year) == <<DigitChar((year \div 10) % 10), DigitChar(year % 10)>>

\* get_contracts: for year in range(start_year, current_year + 1): for code in MONTH_CODES
RECURSIVE ContractsFrom(_, _)
ContractsFrom(year, last) ==
    IF year > last THEN <<>>
    ELSE [k \in 1..Len(MONTH_CODES) |-> SYMBOL \o <<MONTH_CODES[k]>> \o LastTwo(year)]
         \o ContractsFrom(year + 1, last)

get_contracts(years_back, current_year) ==
    ContractsFrom(current_year - years_back, current_year)

\* what requests.get and the checks on the response can come to
Responses == {"http_error", "timeout", "invalid", "short", "ok"}

\* os.path.join(OUTPUT_DIR, f"{contract}.csv") and os.path.basename of it
FileName(contract) == <<"coffee_data/">> \o contract \o <<".csv">>
BaseName(file) == Tail(file)

NoFile == [some |-> FALSE, name |-> <<>>]

\* variant of download_contract that also keeps an 'Invalid' body
DownloadInvalidKept(contract, resp) ==
    IF resp \in {"ok", "invalid"} THEN [some |-> TRUE, name |-> FileName(contract)] ELSE NoFile
\* download_contract: the file is written and its name returned for a good
\* response; every other response returns None
download_contract(contract, resp) ==
    IF resp = "ok" THEN [some |-> TRUE, name |-> FileName(contract)] ELSE NoFile

\* the <li> items make_index writes: one per file that is not None
IndexItems(files) ==
    LET kept == SelectSeq(files, LAMBDA f : f.some)
    IN [k \in 1..Len(kept) |-> BaseName(kept[k].name)]

NoIndex == [written |-> FALSE, items |-> <<>>]

IdleD ==
    /\ nowYear = 0 /\ contracts = <<>> /\ idx = 0 /\ fetched = <<>> /\ lastResp = "none"
    /\ downloaded_files = <<>> /\ disk = {} /\ indexHtml = NoIndex

InitDownload ==
    /\ nowYear \in NowYears
    /\ contracts = <<>> /\ idx = 0 /\ fetched = <<>> /\ lastResp = "none"
    /\ downloaded_files = <<>> /\ disk = {} /\ indexHtml = NoIndex

\* os.makedirs(OUTPUT_DIR, exist_ok=True); contracts = get_contracts()
GetContracts ==
    /\ idx = 0
    /\ contracts' = get_contracts(YearsBack, nowYear)
    /\ idx' = 1
    /\ UNCHANGED <<nowYear, fetched, lastResp, downloaded_files, disk, indexHtml>>

\* one element of [download_contract(c) for c in contracts]
DownloadStep ==
    /\ idx >= 1
    /\ idx <= Len(contracts)
    /\ \E resp \in Responses :
        LET f == download_contract(contracts[idx], resp)
        IN /\ lastResp' = resp
           /\ downloaded_files' = Append(downloaded_files, f)
           /\ disk' = IF f.some THEN disk \cup {f.name} ELSE disk
    /\ fetched' = Append(fetched, contracts[idx])
    /\ idx' = idx + 1
    /\ UNCHANGED <<nowYear, contracts, indexHtml>>

\* make_index([f for f in downloaded_files if f])
MakeIndex ==
    /\ idx > Len(contracts)
    /\ idx >= 1
    /\ ~indexHtml.written
    /\ indexHtml' = [written |-> TRUE, items |-> IndexItems(downloaded_files)]
    /\ UNCHANGED <<nowYear, contracts, idx, fetched, lastResp, downloaded_files, disk>>

(***************************************************************************)
(* Specifications                                                          *)
(***************************************************************************)
InitP == InitParse /\ IdleM /\ IdleR /\ IdleO /\ IdleD
NextP == ParseFilename /\ UNCHANGED <<varsM, varsR, varsO, varsD>>
SpecParse == InitP /\ [][NextP]_vars

Init == IdleP /\ InitMain /\ IdleR /\ IdleO /\ IdleD
Next ==
    \/ ScanFile /\ UNCHANGED <<varsP, varsR, varsO, varsD>>
    \/ ScanEnd /\ UNCHANGED <<varsP, varsR, varsO, varsD>>
    \/ RootStep /\ UNCHANGED <<varsP, varsR, varsO, varsD>>
    \/ PairStep /\ UNCHANGED <<varsP, varsR, varsO, varsD>>
    \/ RootEnd /\ UNCHANGED <<varsP, varsR, varsO, varsD>>
    \/ GenerateHtml /\ UNCHANGED <<varsP, varsR, varsO, varsD>>
Spec == Init /\ [][Next]_vars

InitR == IdleP /\ IdleM /\ InitRead /\ IdleO /\ IdleD
NextR == ReadSeries /\ UNCHANGED <<varsP, varsM, varsO, varsD>>
SpecRead == InitR /\ [][NextR]_vars

InitO == IdleP /\ IdleM /\ IdleR /\ InitOhlc /\ IdleD
NextO == MakeOhlcChart /\ UNCHANGED <<varsP, varsM, varsR, varsD>>
SpecOhlc == InitO /\ [][NextO]_vars

InitD == IdleP /\ IdleM /\ IdleR /\ IdleO /\ InitDownload
NextD ==
    \/ GetContracts /\ UNCHANGED <<varsP, varsM, varsR, varsO>>
    \/ DownloadStep /\ UNCHANGED <<varsP, varsM, varsR, varsO>>
    \/ MakeIndex /\ UNCHANGED <<varsP, varsM, varsR, varsO>>
SpecDownload == InitD /\ [][NextD]_vars

(***************************************************************************)
(* Properties of parse_filename (SpecParse)                                *)
(***************************************************************************)
\* the twelve standard delivery-month letters and their calendar months
StandardMonths ==
    ("F" :> 1) @@ ("G" :> 2) @@ ("H" :> 3) @@ ("J" :> 4) @@ ("K" :> 5) @@ ("M" :> 6)
    @@ ("N" :> 7) @@ ("Q" :> 8) @@ ("U" :> 9) @@ ("V" :> 10) @@ ("X" :> 11) @@ ("Z" :> 12)

\* the month letters the script recognizes, in either case, with their upper case
CoffeeLetters ==
    ("H" :> "H") @@ ("K" :> "K") @@ ("N" :> "N") @@ ("U" :> "U") @@ ("Z" :> "Z")
    @@ ("h" :> "H") @@ ("k" :> "K") @@ ("n" :> "N") @@ ("u" :> "U") @@ ("z" :> "Z")

\* fname is <root><letter><yy>: a non-empty root, one letter, two digits
HasShapeRootLetterYY(s) ==
    /\ Len(s) >= 4
    /\ s[Len(s) - 1] \in Digits /\ s[Len(s)] \in Digits
    /\ s[Len(s) - 2] \notin Digits

LetterOf(s) == s[Len(s) - 2]
RootOf(s) == SubSeq(s, 1, Len(s) - 3)
YYOf(s) == 10 * DigitVal(s[Len(s) - 1]) + DigitVal(s[Len(s)])

\* C3: for an identifier <root><letter><yy> with a non-empty root, a recognized
\* month letter in either case and a 2-digit year, parse_filename returns the
\* root, the letter in upper case and the year 2000 + yy
C3_RoundTrip ==
    (parseRet # Pending /\ HasShapeRootLetterYY(fname)
        /\ LetterOf(fname) \in DOMAIN CoffeeLetters)
    => /\ parseRet.matched
       /\ parseRet.root = RootOf(fname)
       /\ parseRet.month = CoffeeLetters[LetterOf(fname)]
       /\ parseRet.year = [some |-> TRUE, val |-> 2000 + YYOf(fname)]

\* C3 witness: a parsed identifier whose root holds a month letter and a digit
\* and whose month letter is in lower case
C3_Witness ==
    /\ parseRet # Pending
    /\ fname = <<"h", "2", "k", "0", "2">>
    /\ parseRet.root = <<"h", "2">> /\ parseRet.month = "K" /\ parseRet.year.val = 2002

\* C4 as claimed: each of the twelve standard letters is parsed as the month
\* code of <root><letter><yy> and is ordered by its calendar month
C4_AllTwelveLetters ==
    (parseRet # Pending /\ HasShapeRootLetterYY(fname)
        /\ LetterOf(fname) \in DOMAIN StandardMonths)
    => /\ parseRet.matched
       /\ parseRet.month = LetterOf(fname)
       /\ parseRet.month \in DOMAIN COFFEE_MONTH_CODES
       /\ COFFEE_MONTH_CODES[parseRet.month] = StandardMonths[LetterOf(fname)]

\* C4 amended: the five coffee letters H, K, N, U, Z are parsed as the month
\* code and ordered by their calendar months 3, 5, 7, 9, 12; an identifier
\* <root><letter><yy> with any of the seven other letters is unparsable
C4_FiveCoffeeLetters ==
    (parseRet # Pending /\ HasShapeRootLetterYY(fname)
        /\ LetterOf(fname) \in DOMAIN StandardMonths)
    => IF LetterOf(fname) \in {"H", "K", "N", "U", "Z"}
       THEN /\ parseRet.matched
            /\ parseRet.month = LetterOf(fname)
            /\ parseRet.month \in DOMAIN COFFEE_MONTH_CODES
            /\ COFFEE_MONTH_CODES[parseRet.month] = StandardMonths[LetterOf(fname)]
       ELSE parseRet = NoMatch

\* C4 witness: an identifier with the letter K (May) has been parsed
C4_Witness ==
    /\ parseRet # Pending
    /\ HasShapeRootLetterYY(fname)
    /\ LetterOf(fname) = "K"
    /\ parseRet.matched /\ COFFEE_MONTH_CODES[parseRet.month] = 5

(***************************************************************************)
(* Properties of main of generate_spread_charts_html.py (Spec)             *)
(***************************************************************************)
Max0(n) == IF n > 0 THEN n ELSE 0

\* the chronologically ordered contracts of the root at position q of the catalog
Ordered(q) == sort_entries(FilterMonths(parsed[q].entries))

\* the pairs attempted for the root at position q, in the order attempted
AttemptsOf(q) == SelectSeq(attempts, LAMBDA t : t.root = q)

\* the loop over the roots has gone past position q
RootFinished(q) == pc = "done" \/ (pc \in {"roots", "pairs"} /\ q < r)

\* C1 as claimed: with offset 2 a root of N contracts forms max(0, N-1-2) pairs
C1_PairCountAsClaimed ==
    \A q \in 1..Len(parsed) :
        (RootFinished(q) /\ StartsWithKC(parsed[q].root))
        => Len(AttemptsOf(q)) = Max0(Len(Ordered(q)) - 1 - 2)

\* C1 amended: with offset 2 a root of N contracts whose name starts with KC
\* forms exactly max(0, N-2) candidate pairs, the j-th pair being the j-th and
\* the (j+2)-th contract of the ordered sequence; a single contract forms none
C1_PairCount ==
    \A q \in 1..Len(parsed) :
        (RootFinished(q) /\ StartsWithKC(parsed[q].root))
        => /\ Len(AttemptsOf(q)) = Max0(Len(Ordered(q)) - 2)
           /\ \A j \in 1..Len(AttemptsOf(q)) :
                /\ AttemptsOf(q)[j].a = Ordered(q)[j].path
                /\ AttemptsOf(q)[j].b = Ordered(q)[j + 2].path
           /\ Len(Ordered(q)) = 1 => AttemptsOf(q) = <<>>

\* C1 witness: the run has ended and a root of four contracts formed two pairs
C1_Witness ==
    /\ pc = "done"
    /\ \E q \in 1..Len(parsed) :
        /\ StartsWithKC(parsed[q].root)
        /\ Len(Ordered(q)) = 4
        /\ Len(AttemptsOf(q)) = 2

\* the order the catalog is to have: by (year, calendar month), an entry
\* without a year after every entry with one
ChronoLE(a, b) ==
    IF a.year.some /\ b.year.some
    THEN \/ a.year.val < b.year.val
         \/ a.year.val = b.year.val /\ StandardMonths[a.month] <= StandardMonths[b.month]
    ELSE IF ~a.year.some /\ ~b.year.some
    THEN StandardMonths[a.month] <= StandardMonths[b.month]
    ELSE a.year.some

\* C2: the sorted entries of a root are in non-decreasing order of (year,
\* calendar month), every entry without a year after every entry with one
C2_SortedChronologically ==
    pc = "pairs" => \A j \in 1..Len(entries), k \in 1..Len(entries) :
                        j < k => ChronoLE(entries[j], entries[k])

\* an identifier with a recognizable trailing month code: a non-empty root, a
\* month letter, then nothing or a year of 2 or 4 digits
Recognizable(s) ==
    \E j \in 1..(Len(s) - 1) :
        /\ s[j + 1] \in DOMAIN CoffeeLetters
        /\ LET rest == SubSeq(s, j + 2, Len(s))
           IN rest = <<>> \/ (Len(rest) \in {2, 4} /\ AllDigits(rest))

CataloguedPaths ==
    UNION {{parsed[q].entries[j].path : j \in 1..Len(parsed[q].entries)} : q \in 1..Len(parsed)}

\* C5: once the directory is scanned, an identifier without a recognizable
\* trailing month code is in no root's entries and every other one is catalogued
C5_UnparsableExcluded ==
    pc \in {"roots", "pairs", "done"}
    => \A k \in 1..Len(dir) :
        IF Recognizable(dir[k]) THEN dir[k] \in CataloguedPaths
        ELSE dir[k] \notin CataloguedPaths /\ parse_filename(dir[k]) = NoMatch

\* the days on which a file has a complete line
CompleteDays(file) ==
    {file.rows[j].day : j \in {k \in 1..Len(file.rows) : file.rows[k].missing = {}}}

Title(t) == t.a \o <<"-">> \o t.b

\* the titles of the attempts that ended with a chart, in order
ChartTitles(ts) ==
    LET kept == SelectSeq(ts, LAMBDA t : t.kind = "chart")
    IN [j \in 1..Len(kept) |-> Title(kept[j])]

\* C7: when the two files of the pair just processed are readable and share no
\* date, make_ohlc_chart returns None without raising or saving a chart and
\* the pair has no entry in results; a pair that got an entry has a common
\* date, and results holds exactly the pairs that ended with a chart
C7_NoOverlapOmitted ==
    call.made
    => LET last == attempts[Len(attempts)]
           common == CompleteDays(call.a) \cap CompleteDays(call.b)
       IN /\ (call.a.readable /\ call.b.readable /\ common = {})
                => /\ call.ret.kind = "none"
                   /\ last.kind = "none"
                   /\ ChartFile(last.a, last.b) \notin charts
                   /\ \A j \in 1..Len(results) : results[j].title # Title(last)
          /\ last.kind = "chart"
                => /\ common # {}
                   /\ results[Len(results)] =
                        [title |-> Title(last), chart_file |-> ChartFile(last.a, last.b)]
          /\ Len(results) = Len(ChartTitles(attempts))
          /\ \A j \in 1..Len(results) : results[j].title = ChartTitles(attempts)[j]

\* C7 witness: a pair of readable files without a common date was skipped
\* after an earlier pair had been charted
C7_Witness ==
    /\ call.made
    /\ call.a.readable /\ call.b.readable
    /\ CompleteDays(call.a) \cap CompleteDays(call.b) = {}
    /\ attempts[Len(attempts)].kind = "none"
    /\ results # <<>>

\* every candidate pair of every root of the catalog, in the order of the
\* roots and of the ordered contracts
RECURSIVE ExpectedPairs(_)
ExpectedPairs(q) ==
    IF q = 0 THEN <<>>
    ELSE ExpectedPairs(q - 1) \o
         (IF StartsWithKC(parsed[q].root)
          THEN [j \in 1..Max0(Len(Ordered(q)) - 2) |->
                    [root |-> q, a |-> Ordered(q)[j].path, b |-> Ordered(q)[j + 2].path]]
          ELSE <<>>)

\* C8: a pair whose loading, spreading or plotting raises is skipped alone: the
\* run never aborts, the pairs are attempted in order, results holds the
\* charted pairs before and after the failure, and at the end every candidate
\* pair of every root was attempted and the report was written from results
C8_FailureIsolation ==
    LET expected == ExpectedPairs(Len(parsed))
        titles == ChartTitles(attempts)
    IN /\ pc \in {"scan", "roots", "pairs", "done"}
       /\ Len(attempts) <= Len(expected)
       /\ \A j \in 1..Len(attempts) :
            [root |-> attempts[j].root, a |-> attempts[j].a, b |-> attempts[j].b]
                = expected[j]
       /\ Len(results) = Len(titles)
       /\ \A j \in 1..Len(results) : results[j].title = titles[j]
       /\ pc = "done"
            => /\ Len(attempts) = Len(expected)
               /\ html = [written |-> TRUE, body |-> results]

\* C8 witness: the report is written after a run in which a pair raised
\* between two charted pairs and a pair of another root was charted afterwards
C8_Witness ==
    /\ pc = "done"
    /\ html.written
    /\ \E j \in 1..Len(attempts), k \in 1..Len(attempts), l \in 1..Len(attempts) :
        /\ j < k /\ k < l
        /\ attempts[j].kind = "chart"
        /\ attempts[k].kind = "raise"
        /\ attempts[l].kind = "chart"
        /\ attempts[l].root # attempts[k].root

(***************************************************************************)
(* Properties of read_series (SpecRead)                                    *)
(***************************************************************************)
\* the lines of a file with a date and all four prices
CompleteRows(file) == {k \in 1..Len(file.rows) : file.rows[k].missing = {}}

\* C9: the series read from a readable file has only rows taken from complete
\* lines, dates without a time of day, strictly increasing, one row for each
\* date of a complete line, and is empty, not an error, when no line is complete
C9_SeriesClean ==
    (series.done /\ raw.readable)
    => LET df == series.ret.df
       IN /\ ~series.ret.raised
          /\ \A j \in 1..Len(df) :
                /\ df[j].Date.tod = 0
                /\ \E k \in CompleteRows(raw) :
                    /\ raw.rows[k].day = df[j].Date.day
                    /\ raw.rows[k].open = df[j].Open /\ raw.rows[k].high = df[j].High
                    /\ raw.rows[k].low = df[j].Low /\ raw.rows[k].close = df[j].Close
          /\ \A j \in 1..Len(df), k \in 1..Len(df) :
                j < k => df[j].Date.day < df[k].Date.day
          /\ {df[j].Date.day : j \in 1..Len(df)} = CompleteDays(raw)
          /\ Len(df) = Cardinality(CompleteDays(raw))
          /\ CompleteRows(raw) = {} => df = <<>>

\* C9 witness: a file with two complete lines of one day at different times,
\* given latest day first, and a line with a missing price, has been read
C9_Witness ==
    /\ series.done /\ raw.readable
    /\ Len(raw.rows) = 3
    /\ Len(series.ret.df) = 1
    /\ \E j \in CompleteRows(raw), k \in CompleteRows(raw) :
        /\ j < k
        /\ raw.rows[j].day = raw.rows[k].day
        /\ raw.rows[j].tod > raw.rows[k].tod
    /\ \E j \in 1..3 : raw.rows[j].missing = {"close"}

(***************************************************************************)
(* Properties of make_ohlc_chart (SpecOhlc)                                *)
(***************************************************************************)
Days(df) == {df[j].Date.day : j \in 1..Len(df)}

\* C6: the spread of the near series a and the deferred series b has one row
\* for each date of both, no other row, in ascending date order, and each of
\* Open, High, Low, Close is a's value minus b's value on that date; with no
\* common date there is no spread
C6_SpreadIsInnerJoinDifference ==
    /\ ohlcRet.kind = "chart"
        => LET a == ohlcRet.a
               b == ohlcRet.b
               o == ohlcRet.ohlc
           IN /\ Days(o) = Days(a) \cap Days(b)
              /\ Len(o) = Cardinality(Days(a) \cap Days(b))
              /\ \A j \in 1..Len(o), k \in 1..Len(o) :
                    j < k => o[j].Date.day < o[k].Date.day
              /\ \A j \in 1..Len(o), x \in 1..Len(a), y \in 1..Len(b) :
                    (a[x].Date = o[j].Date /\ b[y].Date = o[j].Date)
                    => /\ o[j].Open = a[x].Open - b[y].Open
                       /\ o[j].High = a[x].High - b[y].High
                       /\ o[j].Low = a[x].Low - b[y].Low
                       /\ o[j].Close = a[x].Close - b[y].Close
    /\ ohlcRet.kind = "none" => Days(ohlcRet.a) \cap Days(ohlcRet.b) = {}

\* C6 witness: near closes 200 and 202 and deferred closes 205 and 206 on two
\* days, the near file listing the later day first, give closes -5 and -4
C6_Witness ==
    /\ ohlcRet.kind = "chart"
    /\ rawA.rows[1].day = 2
    /\ Len(ohlcRet.ohlc) = 2
    /\ ohlcRet.a[1].Close = 200 /\ ohlcRet.a[2].Close = 202
    /\ ohlcRet.b[1].Close = 205 /\ ohlcRet.b[2].Close = 206
    /\ ohlcRet.ohlc[1].Close = -5 /\ ohlcRet.ohlc[2].Close = -4
    /\ ohlcRet.ohlc[1].Date.day = 1 /\ ohlcRet.ohlc[2].Date.day = 2

(***************************************************************************)
(* Properties of main of download_coffee.py (SpecDownload)                 *)
(***************************************************************************)
\* the contracts in generation order: year ascending, then H, K, N, U, Z
ExpectedContracts ==
    LET codes == <<"H", "K", "N", "U", "Z">>
    IN [k \in 1..(5 * (YearsBack + 1)) |->
            <<"K", "C", codes[((k - 1) % 5) + 1]>>
            \o LastTwo(nowYear - YearsBack + ((k - 1) \div 5))]

Successes == SelectSeq(downloaded_files, LAMBDA f : f.some)

\* C10: each contract is fetched once, in generation order, whatever the
\* earlier responses were; a file is on disk exactly for the good responses;
\* the index lists exactly the downloaded contracts, in that order
C10_EveryContractAttempted ==
    idx >= 1
    => /\ Len(fetched) = idx - 1
       /\ Len(fetched) <= Len(ExpectedContracts)
       /\ \A k \in 1..Len(fetched) : fetched[k] = ExpectedContracts[k]
       /\ Len(downloaded_files) = Len(fetched)
       /\ lastResp # "none"
            => /\ downloaded_files[Len(fetched)].some <=> lastResp = "ok"
               /\ (<<"coffee_data/">> \o fetched[Len(fetched)] \o <<".csv">>) \in disk
                    <=> lastResp = "ok"
       /\ \A k \in 1..Len(fetched) :
            (<<"coffee_data/">> \o fetched[k] \o <<".csv">>) \in disk
                <=> downloaded_files[k].some
       /\ Cardinality(disk) = Len(Successes)
       /\ indexHtml.written
            => /\ Len(fetched) = Len(ExpectedContracts)
               /\ Len(indexHtml.items) = Len(Successes)
               /\ \A k \in 1..Len(Successes) :
                    <<"coffee_data/">> \o indexHtml.items[k] = Successes[k].name

\* C10 witness: the index is written after a run whose first four responses
\* were an HTTP error or timeout, an invalid body, a good one, and whose last
\* response was too short
C10_Witness ==
    /\ indexHtml.written
    /\ ~downloaded_files[1].some /\ ~downloaded_files[2].some
    /\ downloaded_files[3].some
    /\ lastResp = "short"
    /\ Len(indexHtml.items) = 2
====
